---- MODULE Spec2Model ----
(***************************************************************************)
(* gen-pw: a password generator (src/src/main.rs).                         *)
(*                                                                         *)
(* main parses the options, computes the list of required constraints,     *)
(* checks its assertions and calls do_gen with one of two letter-picking   *)
(* closures (Chars: one random letter; Dict: one random aspell word).      *)
(* do_gen is a rejection sampler bounded by opts.tries.                    *)
(*                                                                         *)
(* A char is its Unicode scalar value; a String is a sequence of chars;    *)
(* String::len() is the number of UTF-8 bytes (StrLen below).              *)
(***************************************************************************)
EXTENDS Integers, Sequences, FiniteSets, TLC

\* ---------------------------------------------------------------- bounds
\* opts.min and opts.max range over 0..MaxLen
MaxLen == 4
\* opts.tries ranges over 0..MaxTries
MaxTries == 2

\* ------------------------------------------------------- program constants
\* width of usize on the target (min, max, tries and String::len are usize)
USIZE_BITS == 64

\* enum Constraint, in declaration order (ValueEnum::value_variants)
value_variants == << "LowerCaseLetter", "UpperCaseLetter", "Number", "Symbol" >>

Constraint == { value_variants[i] : i \in 1..Len(value_variants) }

\* Range<char> constants: start inclusive, end exclusive
LOWER_CASE_LETTERS == [start |-> 97, end |-> 122]   \* 'a'..'z'
UPPER_CASE_LETTERS == [start |-> 65, end |-> 90]    \* 'A'..'Z'
NUMBERS == [start |-> 48, end |-> 57]               \* '0'..'9'

\* mutant: the end of the range taken as part of it
RangeContains_inclusive(r, c) == r.start <= c /\ c <= r.end

\* Range::contains
RangeContains(r, c) == r.start <= c /\ c < r.end

\* mutant: the range taken as inclusive, 'a'..='z'
RangeChars_inclusive(r) == r.start..r.end

\* the chars a Range<char> iterates over
RangeChars(r) == { c \in r.start..r.end : c < r.end }

\* ----------------------------------------------------------- char helpers
\* the chars the random source is let to draw from a range in this model:
\* the last char of each range and the char just past it, and the first
\* char of the lowercase range
CharSample == {97, 121, 122, 89, 90, 56, 57}

\* char::len_utf8
len_utf8(c) == IF c < 128 THEN 1 ELSE IF c < 2048 THEN 2 ELSE IF c < 65536 THEN 3 ELSE 4

\* String::len: the byte length
RECURSIVE StrLen(_)
StrLen(str) == IF str = << >> THEN 0 ELSE len_utf8(Head(str)) + StrLen(Tail(str))

\* char::is_whitespace (White_Space code points below U+0100)
is_whitespace(c) == c \in {9, 10, 11, 12, 13, 32, 133, 160}

\* char::to_lowercase / char::to_uppercase: the chars the iterator yields
to_lowercase(c) ==
    IF (65 <= c /\ c <= 90) \/ (192 <= c /\ c <= 222 /\ c # 215) THEN << c + 32 >>
    ELSE << c >>

to_uppercase(c) ==
    IF (97 <= c /\ c <= 122) \/ (224 <= c /\ c <= 254 /\ c # 247) THEN << c - 32 >>
    ELSE IF c = 223 THEN << 83, 83 >>
    ELSE << c >>

\* str::contains(char) / Vec::contains
Contains(seq, x) == \E i \in 1..Len(seq) : seq[i] = x

\* str::split(char::is_whitespace): the pieces between whitespace chars,
\* empty pieces included
RECURSIVE SplitFrom(_, _, _)
SplitFrom(str, cur, acc) ==
    IF str = << >> THEN Append(acc, cur)
    ELSE IF is_whitespace(Head(str)) THEN SplitFrom(Tail(str), << >>, Append(acc, cur))
    ELSE SplitFrom(Tail(str), Append(cur, Head(str)), acc)

split(str) == SplitFrom(str, << >>, << >>)

\* ------------------------------------------------------- usize arithmetic
\* bit i of n, n a natural number below 2^31 (every length and bound here)
Bit(n, i) == IF i >= 31 THEN 0 ELSE (n \div (2 ^ i)) % 2

\* a usize as its USIZE_BITS bits
Bits(n) == [i \in 0..(USIZE_BITS - 1) |-> Bit(n, i)]

\* the unary ! of usize: bitwise complement
BitNot(b) == [i \in DOMAIN b |-> 1 - b[i]]

\* a > b on usize values given as bits
BitsGt(a, b) ==
    \E i \in DOMAIN a : a[i] = 1 /\ b[i] = 0 /\ \A j \in DOMAIN a : j > i => a[j] = b[j]

\* ------------------------------------------------------------------ inputs
\* --require lists the command line is let to give
RequireChoices ==
    { << >>,
      << "Number" >>,
      << "LowerCaseLetter" >>,
      << "LowerCaseLetter", "Number" >>,
      << "UpperCaseLetter", "Symbol" >>,
      << "Symbol", "LowerCaseLetter", "Symbol" >> }

\* --exclude lists the command line is let to give
ExcludeChoices ==
    { << >>, << "Number" >>, << "Symbol" >>, << "Symbol", "UpperCaseLetter" >> }

\* --symbols strings: "", "!", "é" (two bytes), "zZ9"
SymbolsChoices == { << >>, << 33 >>, << 233 >>, << 122, 90, 57 >> }

\* outputs of the aspell pipeline: "ab\n", "Cd abc", "a'b  aB abcde\n"
DumpChoices ==
    { << 97, 98, 10 >>,
      << 67, 100, 32, 97, 98, 99 >>,
      << 97, 39, 98, 32, 32, 97, 66, 32, 97, 98, 99, 100, 101, 10 >> }

\* ------------------------------------------------------------------- state
VARIABLES
    opts,          \* struct Opts, as parsed
    dump,          \* the String s read from aspell (Dict only)
    required,      \* main: the Vec<Constraint> required
    words,         \* main: the Vec<&str> words
    pc,            \* position in main / do_gen
    take_n,        \* Take::n, the items take(opts.tries) may still yield
    actual_tries,  \* the counter of the find_map closure
    s,             \* the String s of the running attempt
    is_lowercase,  \* argument of the running pick_letters call
    word,          \* index of the last word drawn by words.choose, 0 if none
    result,        \* what do_gen returned: << >> or << string, tries >>
    panic,         \* the panic that ended the process, NoPanic if none
    hist,          \* history: the pushes of the running attempt
    outcomes       \* history: the outcome of every finished attempt

vars == << opts, dump, required, words, pc, take_n, actual_tries, s,
           is_lowercase, word, result, panic, hist, outcomes >>

NoPanic == [msg |-> "none", n |-> 0]

\* ------------------------------------------------------ Constraint::verify
verify(self, o, str) ==
    \E i \in 1..Len(str) :
        CASE self = "LowerCaseLetter" -> RangeContains(LOWER_CASE_LETTERS, str[i])
          [] self = "UpperCaseLetter" -> RangeContains(UPPER_CASE_LETTERS, str[i])
          [] self = "Number" -> RangeContains(NUMBERS, str[i])
          [] self = "Symbol" -> Contains(o.symbols, str[i])

\* ------------------------------------------------------------------- main
\* mutant: nothing is filtered out
FilterExcluded_nothing(list, exclude) == list

\* Iterator::filter(..).collect() of the required computation
RECURSIVE FilterExcluded(_, _)
FilterExcluded(list, exclude) ==
    IF list = << >> THEN << >>
    ELSE IF ~Contains(exclude, Head(list))
         THEN << Head(list) >> \o FilterExcluded(Tail(list), exclude)
         ELSE FilterExcluded(Tail(list), exclude)

\* mutant: --exclude applied to the default list only
EffectiveRequired_default_only(o) ==
    IF o.require = << >> THEN FilterExcluded(value_variants, o.exclude) ELSE o.require

EffectiveRequired(o) ==
    FilterExcluded(IF o.require = << >> THEN value_variants ELSE o.require, o.exclude)

\* the predicate of the words filter
KeepWord(w, o) ==
    /\ ~Contains(w, 39)
    /\ w # << >>
    /\ BitsGt(BitNot(Bits(StrLen(w))), Bits(o.max))

RECURSIVE FilterWords(_, _)
FilterWords(list, o) ==
    IF list = << >> THEN << >>
    ELSE IF KeepWord(Head(list), o)
         THEN << Head(list) >> \o FilterWords(Tail(list), o)
         ELSE FilterWords(Tail(list), o)

\* mutant: the assertion without its lower bound
SomeWordInBounds_max_only(ws, o) ==
    \E i \in 1..Len(ws) : StrLen(ws[i]) <= o.max

\* mutant: the assertion without its upper bound
SomeWordInBounds_min_only(ws, o) ==
    \E i \in 1..Len(ws) : StrLen(ws[i]) >= o.min

\* the first word-list assertion
SomeWordInBounds(ws, o) ==
    \E i \in 1..Len(ws) : StrLen(ws[i]) >= o.min /\ StrLen(ws[i]) <= o.max

Init ==
    /\ opts \in [ min : 0..MaxLen, max : 0..MaxLen, tries : 0..MaxTries,
                  require : RequireChoices, exclude : ExcludeChoices,
                  symbols : SymbolsChoices, command : {"Chars", "Dict"} ]
    /\ dump \in IF opts.command = "Dict" THEN DumpChoices ELSE { << >> }
    /\ required = << >>
    /\ words = << >>
    /\ pc = "main"
    /\ take_n = 0
    /\ actual_tries = 0
    /\ s = << >>
    /\ is_lowercase = FALSE
    /\ word = 0
    /\ result = << >>
    /\ panic = NoPanic
    /\ hist = << >>
    /\ outcomes = << >>

\* main: let ref required = ...
ComputeRequired ==
    /\ pc = "main"
    /\ required' = EffectiveRequired(opts)
    /\ pc' = "assert"
    /\ UNCHANGED << opts, dump, words, take_n, actual_tries, s, is_lowercase,
                    word, result, panic, hist, outcomes >>

\* main: the three assertions, then the match on opts.command;
\* do_gen's iterator chain is built with Take::n = opts.tries
CheckOpts ==
    /\ pc = "assert"
    /\ IF required = << >>
       THEN pc' = "panic" /\ panic' = [msg |-> "assert !required.is_empty()", n |-> 0]
                          /\ UNCHANGED take_n
       ELSE IF ~(opts.min <= opts.max)
       THEN pc' = "panic" /\ panic' = [msg |-> "assert min <= max", n |-> 0]
                          /\ UNCHANGED take_n
       ELSE IF ~(opts.min > Len(required))
       THEN pc' = "panic" /\ panic' = [msg |-> "assert min > required.len()", n |-> 0]
                          /\ UNCHANGED take_n
       ELSE IF opts.command = "Chars"
       THEN pc' = "iter" /\ take_n' = opts.tries /\ UNCHANGED panic
       ELSE pc' = "words" /\ UNCHANGED << take_n, panic >>
    /\ UNCHANGED << opts, dump, required, words, actual_tries, s, is_lowercase,
                    word, result, hist, outcomes >>

\* main, Command::Dict: split and filter the dump, the two word-list
\* assertions, then do_gen
LoadWords ==
    /\ pc = "words"
    /\ words' = FilterWords(split(dump), opts)
    /\ IF ~SomeWordInBounds(words', opts)
       THEN pc' = "panic" /\ panic' = [msg |-> "assert words.any(in bounds)", n |-> 0]
                          /\ UNCHANGED take_n
       ELSE IF ~(Len(words') > 0)
       THEN pc' = "panic" /\ panic' = [msg |-> "assert words.len() > 0", n |-> 0]
                          /\ UNCHANGED take_n
       ELSE pc' = "iter" /\ take_n' = opts.tries /\ UNCHANGED panic
    /\ UNCHANGED << opts, dump, required, actual_tries, s, is_lowercase,
                    word, result, hist, outcomes >>

\* ------------------------------------------------------------------ do_gen
\* mutant: take yields one item more
TakeYields_one_more(n) == n + 1 # 0

\* Take::next yields another item while n is not zero
TakeYields(n) == n # 0

\* mutant: the loop runs once more, while len <= min
LoopCond_le(str, o) == StrLen(str) <= o.min

\* the condition of the while loop
LoopCond(str, o) == StrLen(str) < o.min

\* mutant: judgement without the length test
judgement_no_max(o, req, str) ==
    ~\E i \in 1..Len(req) : ~verify(req[i], o, str)

\* mutant: judgement without the constraints
judgement_len_only(o, req, str) == StrLen(str) <= o.max

\* let judgement = ...
judgement(o, req, str) ==
    /\ StrLen(str) <= o.max
    /\ ~\E i \in 1..Len(req) : ~verify(req[i], o, str)

\* mutant: only an accepted item is counted
CountTry_accepted_only(n, accepted) == IF accepted THEN n + 1 ELSE n

\* the value of actual_tries after the find_map closure has seen one more item
CountTry(n, accepted) == n + 1

\* mutant: the filter lets every word through
Fits_always(w, str, o) == TRUE

\* the filter of the dictionary closure
Fits(w, str, o) == StrLen(w) + StrLen(str) <= o.max

\* mutant: every char of the word folded, not only the first
RECURSIVE WordChars_fold_all(_, _)
WordChars_fold_all(w, lower) ==
    IF w = << >> THEN << >>
    ELSE (IF lower THEN to_lowercase(Head(w)) ELSE to_uppercase(Head(w)))
         \o WordChars_fold_all(Tail(w), lower)

\* mutant: the word pushed as it is, its first char not folded
WordChars_verbatim(w, lower) == w

\* what the dictionary closure extends s with
WordChars(w, lower) ==
    (IF lower THEN to_lowercase(Head(w)) ELSE to_uppercase(Head(w))) \o Tail(w)

\* the range the character closure draws from
LetterRange(lower) == IF lower THEN LOWER_CASE_LETTERS ELSE UPPER_CASE_LETTERS

\* the chars IteratorRandom::choose may return for a range
ChooseFrom(r) == RangeChars(r) \cap CharSample

Push(c, lower, w, added) ==
    /\ s' = s \o added
    /\ hist' = Append(hist, [c |-> c, lower |-> lower, w |-> w,
                             at |-> Len(s), added |-> added])

\* the find_map closure on the item an attempt produced:
\* item is << >> for None and << str >> for Some(str)
FindMap(item, outcome) ==
    /\ actual_tries' = CountTry(actual_tries, item # << >>)
    /\ outcomes' = Append(outcomes, outcome)
    /\ IF item # << >>
       THEN pc' = "done" /\ result' = << item[1], actual_tries' >>
       ELSE pc' = "iter" /\ UNCHANGED result

\* mutant: the String of the attempt before is used again
StartAttempt_keep_s ==
    /\ pc = "iter"
    /\ TakeYields(take_n)
    /\ take_n' = take_n - 1
    /\ hist' = << >>
    /\ pc' = "loop"
    /\ UNCHANGED << opts, dump, required, words, actual_tries, s, is_lowercase,
                    word, result, panic, outcomes >>

\* take(opts.tries) yields: repeat_with's closure starts an attempt
StartAttempt ==
    /\ pc = "iter"
    /\ TakeYields(take_n)
    /\ take_n' = take_n - 1
    /\ s' = << >>
    /\ hist' = << >>
    /\ pc' = "loop"
    /\ UNCHANGED << opts, dump, required, words, actual_tries, is_lowercase,
                    word, result, panic, outcomes >>

\* take(opts.tries) is used up: find_map returns None and expect panics
Exhausted ==
    /\ pc = "iter"
    /\ ~TakeYields(take_n)
    /\ pc' = "panic"
    /\ panic' = [msg |-> "Could not find a satisfactory string in {} tries",
                 n |-> opts.tries]
    /\ UNCHANGED << opts, dump, required, words, take_n, actual_tries, s,
                    is_lowercase, word, result, hist, outcomes >>

\* a letter constraint is chosen, Command::Chars: the closure pushes one letter
PickLetterChars ==
    /\ pc = "loop"
    /\ LoopCond(s, opts)
    /\ opts.command = "Chars"
    /\ \E i \in 1..Len(required) :
         /\ required[i] \in {"LowerCaseLetter", "UpperCaseLetter"}
         /\ \E c \in ChooseFrom(LetterRange(required[i] = "LowerCaseLetter")) :
              Push(required[i], required[i] = "LowerCaseLetter", << >>, << c >>)
    /\ UNCHANGED << opts, dump, required, words, pc, take_n, actual_tries,
                    is_lowercase, word, result, panic, outcomes >>

\* a letter constraint is chosen, Command::Dict: the closure is entered
PickLetterDict ==
    /\ pc = "loop"
    /\ LoopCond(s, opts)
    /\ opts.command = "Dict"
    /\ \E i \in 1..Len(required) :
         /\ required[i] \in {"LowerCaseLetter", "UpperCaseLetter"}
         /\ is_lowercase' = (required[i] = "LowerCaseLetter")
    /\ pc' = "pick"
    /\ word' = 0
    /\ UNCHANGED << opts, dump, required, words, take_n, actual_tries, s,
                    result, panic, hist, outcomes >>

\* the dictionary closure: words.choose draws one word; the filter passes it
\* on (s is extended, the closure returns Some) or the next one is drawn.
\* An empty words makes choose return None, the closure and the attempt too.
DrawWord ==
    /\ pc = "pick"
    /\ IF words = << >>
       THEN /\ FindMap(<< >>, "aborted")
            /\ UNCHANGED << word, s, hist >>
       ELSE \E j \in 1..Len(words) :
              IF Fits(words[j], s, opts)
              THEN /\ Push(IF is_lowercase THEN "LowerCaseLetter" ELSE "UpperCaseLetter",
                           is_lowercase, words[j], WordChars(words[j], is_lowercase))
                   /\ pc' = "loop"
                   /\ word' = 0
                   /\ UNCHANGED << actual_tries, result, outcomes >>
              ELSE /\ word' = j
                   /\ UNCHANGED << pc, s, hist, actual_tries, result, outcomes >>
    /\ UNCHANGED << opts, dump, required, words, take_n, is_lowercase, panic >>

\* Symbol is chosen: one char of opts.symbols, unwrap panics if there is none
PushSymbol ==
    /\ pc = "loop"
    /\ LoopCond(s, opts)
    /\ \E i \in 1..Len(required) : required[i] = "Symbol"
    /\ IF opts.symbols = << >>
       THEN /\ pc' = "panic"
            /\ panic' = [msg |-> "called Option::unwrap() on a None value", n |-> 0]
            /\ UNCHANGED << s, hist >>
       ELSE /\ \E k \in 1..Len(opts.symbols) :
                 Push("Symbol", FALSE, << >>, << opts.symbols[k] >>)
            /\ UNCHANGED << pc, panic >>
    /\ UNCHANGED << opts, dump, required, words, take_n, actual_tries,
                    is_lowercase, word, result, outcomes >>

\* Number is chosen: one char of NUMBERS
PushNumber ==
    /\ pc = "loop"
    /\ LoopCond(s, opts)
    /\ \E i \in 1..Len(required) : required[i] = "Number"
    /\ \E c \in ChooseFrom(NUMBERS) : Push("Number", FALSE, << >>, << c >>)
    /\ UNCHANGED << opts, dump, required, words, pc, take_n, actual_tries,
                    is_lowercase, word, result, panic, outcomes >>

\* the loop is left: judgement, then the find_map closure
Judge ==
    /\ pc = "loop"
    /\ ~LoopCond(s, opts)
    /\ IF judgement(opts, required, s)
       THEN FindMap(<< s >>, "accepted")
       ELSE FindMap(<< >>, "rejected")
    /\ UNCHANGED << opts, dump, required, words, take_n, s, is_lowercase,
                    word, panic, hist >>

Next ==
    \/ ComputeRequired
    \/ CheckOpts
    \/ LoadWords
    \/ StartAttempt
    \/ Exhausted
    \/ PickLetterChars
    \/ PickLetterDict
    \/ DrawWord
    \/ PushSymbol
    \/ PushNumber
    \/ Judge

Spec == Init /\ [][Next]_vars

\* ===================================================================== claims
ExhaustedMsg == "Could not find a satisfactory string in {} tries"

\* do_gen has been called
InDoGen ==
    \/ pc \in {"iter", "loop", "pick", "done"}
    \/ panic.msg \in {ExhaustedMsg, "called Option::unwrap() on a None value"}

\* the attempts started so far
Started == Len(outcomes) + (IF pc \in {"loop", "pick"} THEN 1 ELSE 0)

Accepted == pc = "done"

\* ASCII letters and U+00E9, the alphabetic chars a candidate of this model
\* can hold
IsAlphabetic(c) == (65 <= c /\ c <= 90) \/ (97 <= c /\ c <= 122) \/ c = 233
IsLower(c) == (97 <= c /\ c <= 122) \/ c = 233
IsUpper(c) == 65 <= c /\ c <= 90

\* C1: every string do_gen returns, Chars or Dict, has a length (String::len)
\* between opts.min and opts.max
C1_LengthWithinBounds ==
    Accepted => opts.min <= StrLen(result[1]) /\ StrLen(result[1]) <= opts.max

\* a Dict word carried the accepted string past min
C1_Witness ==
    /\ Accepted
    /\ opts.command = "Dict"
    /\ opts.min < StrLen(result[1])
    /\ opts.min < opts.max

\* C2: every string do_gen returns satisfies verify for every constraint of
\* the required list
C2_AllRequiredVerified ==
    Accepted => \A i \in 1..Len(required) : verify(required[i], opts, result[1])

C2_Witness ==
    /\ Accepted
    /\ Len(required) = 3
    /\ outcomes[1] = "rejected"

\* C3: when no word of the list fits behind the candidate, the dictionary
\* closure stops drawing and fails, which ends the attempt
C3_NoFitAbortsAttempt ==
    [][ (pc = "pick" /\ \A j \in 1..Len(words) : ~Fits(words[j], s, opts))
        => (pc' = "iter" /\ Len(outcomes') = Len(outcomes) + 1) ]_vars

\* C4: the filtered word list holds no word with an apostrophe, no empty
\* word and no word longer than opts.max
C4_WordsFiltered ==
    \A i \in 1..Len(words) :
        /\ ~Contains(words[i], 39)
        /\ words[i] # << >>
        /\ StrLen(words[i]) <= opts.max

\* C5: a returned count n is the 1-based index of the accepting attempt: n - 1
\* attempts, all not accepted, come before it, 1 <= n <= tries, and no attempt
\* is started after it
C5_CountIsAcceptingAttempt ==
    Accepted =>
        /\ result[2] = Len(outcomes)
        /\ outcomes[result[2]] = "accepted"
        /\ \A k \in 1..(result[2] - 1) : outcomes[k] \in {"rejected", "aborted"}
        /\ 1 <= result[2] /\ result[2] <= opts.tries
        /\ Started = result[2]
        /\ ~ENABLED Next

C5_Witness ==
    /\ Accepted
    /\ result[2] = 2
    /\ outcomes = << "rejected", "accepted" >>

\* C6: when none of the first tries attempts is accepted do_gen panics with
\* the exhaustion message carrying tries, returns no string, and attempt
\* tries + 1 is never made
C6_ExhaustionAfterTries ==
    /\ Started <= opts.tries
    /\ (pc = "iter" /\ Len(outcomes) = opts.tries)
          => (ENABLED Exhausted /\ ~ENABLED StartAttempt)
    /\ panic.msg = ExhaustedMsg =>
          /\ panic.n = opts.tries
          /\ result = << >>
          /\ Len(outcomes) = opts.tries
          /\ \A k \in 1..Len(outcomes) : outcomes[k] # "accepted"
          /\ ~ENABLED Next

C6_Witness ==
    /\ panic.msg = ExhaustedMsg
    /\ opts.tries = 1
    /\ panic.n = 1
    /\ outcomes = << "rejected" >>

\* C7: required is the four kinds in declaration order when --require is
\* empty, else the --require list, with every excluded element removed and
\* order and duplicates kept
C7_EffectiveRequired ==
    pc # "main" =>
        /\ required = SelectSeq(IF Len(opts.require) = 0
                                THEN << "LowerCaseLetter", "UpperCaseLetter",
                                        "Number", "Symbol" >>
                                ELSE opts.require,
                                LAMBDA c : \A k \in 1..Len(opts.exclude) : opts.exclude[k] # c)
        /\ \A i \in 1..Len(required) : \A k \in 1..Len(opts.exclude) :
              required[i] # opts.exclude[k]
        /\ (opts.require = << >> /\ opts.exclude = << "Number" >>)
              => required = << "LowerCaseLetter", "UpperCaseLetter", "Symbol" >>

C7_Witness ==
    /\ Accepted
    /\ opts.require = << >>
    /\ opts.exclude = << "Number" >>
    /\ required = << "LowerCaseLetter", "UpperCaseLetter", "Symbol" >>

\* C8: no attempt is started unless required is non-empty, min <= max,
\* min > required.len() and, for Dict, some word has min <= len <= max; a
\* violation is a panic of main before the first attempt
C8_OptsOk ==
    /\ opts.min <= opts.max
    /\ Len(required) > 0
    /\ opts.min > Len(required)

C8_WordsOk ==
    \E i \in 1..Len(words) : opts.min <= StrLen(words[i]) /\ StrLen(words[i]) <= opts.max

C8_PreconditionsBeforeAttempts ==
    /\ (InDoGen \/ Started > 0) =>
          /\ C8_OptsOk
          /\ opts.command = "Dict" => C8_WordsOk
    /\ (pc \notin {"main", "assert"} /\ ~C8_OptsOk) =>
          /\ pc = "panic" /\ panic.n = 0 /\ Started = 0 /\ s = << >>
          /\ ~ENABLED Next
    /\ (pc \notin {"main", "assert", "words"} /\ opts.command = "Dict" /\ ~C8_WordsOk) =>
          /\ pc = "panic" /\ panic.n = 0 /\ Started = 0 /\ s = << >>
          /\ ~ENABLED Next

\* main refused a word list with no word between min and max
C8_Witness ==
    /\ pc = "panic"
    /\ opts.command = "Dict"
    /\ C8_OptsOk
    /\ words # << >>
    /\ ~C8_WordsOk

\* positions a..b of str are a maximal run of alphabetic chars
MaxRun(str, a, b) ==
    /\ a <= b
    /\ \A p \in a..b : IsAlphabetic(str[p])
    /\ a = 1 \/ ~IsAlphabetic(str[a - 1])
    /\ b = Len(str) \/ ~IsAlphabetic(str[b + 1])

NoAlphabeticSymbol == \A k \in 1..Len(opts.symbols) : ~IsAlphabetic(opts.symbols[k])

HasCase(c, lower) == IF lower THEN IsLower(c) ELSE IsUpper(c)

\* C9 as stated: Dict, every maximal alphabetic run of an accepted string
\* starts in the case requested when it was inserted and is as long as some
\* word of the list
C9_RunIsOneWord ==
    (Accepted /\ opts.command = "Dict" /\ NoAlphabeticSymbol) =>
        \A a, b \in 1..Len(result[1]) :
            MaxRun(result[1], a, b) =>
                /\ \E k \in 1..Len(hist) :
                      /\ hist[k].at + 1 = a
                      /\ hist[k].w # << >>
                      /\ HasCase(result[1][a], hist[k].lower)
                /\ \E j \in 1..Len(words) : Len(words[j]) = b - a + 1

\* C9 amended: Dict, every inserted word lies in the accepted string whole,
\* its first char in the requested case and the rest unchanged, and every
\* maximal alphabetic run is one or more such words back to back
C9_RunIsWholeWords ==
    (Accepted /\ opts.command = "Dict") =>
        /\ \A k \in 1..Len(hist) :
              hist[k].w # << >> =>
                  /\ \E j \in 1..Len(words) : words[j] = hist[k].w
                  /\ hist[k].at + Len(hist[k].w) <= Len(result[1])
                  /\ HasCase(result[1][hist[k].at + 1], hist[k].lower)
                  /\ result[1][hist[k].at + 1] \in
                        {hist[k].w[1], hist[k].w[1] + 32, hist[k].w[1] - 32}
                  /\ \A q \in 2..Len(hist[k].w) :
                        result[1][hist[k].at + q] = hist[k].w[q]
        /\ NoAlphabeticSymbol =>
              \A a, b \in 1..Len(result[1]) :
                  MaxRun(result[1], a, b) =>
                      \A p \in a..b :
                          \E k \in 1..Len(hist) :
                              /\ hist[k].w # << >>
                              /\ a <= hist[k].at + 1
                              /\ hist[k].at + Len(hist[k].w) <= b
                              /\ hist[k].at + 1 <= p
                              /\ p <= hist[k].at + Len(hist[k].w)

\* an accepted string with two words back to back, the second one refolded
C9_Witness ==
    /\ Accepted
    /\ opts.command = "Dict"
    /\ NoAlphabeticSymbol
    /\ \E k \in 1..(Len(hist) - 1) :
          /\ hist[k].w # << >>
          /\ hist[k + 1].w # << >>
          /\ hist[k + 1].w[1] # result[1][hist[k + 1].at + 1]

RECURSIVE Pushed(_)
Pushed(h) == IF h = << >> THEN << >> ELSE Head(h).added \o Pushed(Tail(h))

\* C11: verify(c, str) holds exactly when str has a char of c's class, the
\* classes being a..y, A..Y, 0..8 and the chars of opts.symbols; after the
\* acceptance check the candidate is still what was pushed
C11_Class(c) ==
    CASE c = "LowerCaseLetter" -> 97..121
      [] c = "UpperCaseLetter" -> 65..89
      [] c = "Number" -> 48..56
      [] c = "Symbol" -> { opts.symbols[k] : k \in 1..Len(opts.symbols) }

C11_VerifyIsClassMembership ==
    /\ \A c \in {"LowerCaseLetter", "UpperCaseLetter", "Number", "Symbol"} :
          verify(c, opts, s) <=> \E p \in 1..Len(s) : s[p] \in C11_Class(c)
    /\ (outcomes # << >> /\ pc \in {"iter", "done"}) => s = Pushed(hist)

\* a candidate at the acceptance check whose only lowercase letter is z, only
\* uppercase letter Z and only digit 9
C11_Witness ==
    /\ pc = "loop"
    /\ ~LoopCond(s, opts)
    /\ \E p, q, r \in 1..Len(s) : s[p] = 122 /\ s[q] = 90 /\ s[r] = 57
    /\ ~verify("LowerCaseLetter", opts, s)
    /\ ~verify("UpperCaseLetter", opts, s)
    /\ ~verify("Number", opts, s)
    /\ verify("Symbol", opts, s)

C14_Fold(c, lower) ==
    IF lower THEN (IF 65 <= c /\ c <= 90 THEN c + 32 ELSE c)
    ELSE (IF 97 <= c /\ c <= 122 THEN c - 32 ELSE c)

\* C14: a step of the dictionary closure that extends the candidate picks a
\* word that fits within max and appends its first char in the requested
\* case and its other chars as they are, behind the unchanged candidate
C14_WordAppended ==
    [][ (pc = "pick" /\ s' # s) =>
          \E j \in 1..Len(words) :
              /\ StrLen(words[j]) + StrLen(s) <= opts.max
              /\ Len(s') = Len(s) + Len(words[j])
              /\ SubSeq(s', 1, Len(s)) = s
              /\ s'[Len(s) + 1] = C14_Fold(words[j][1], is_lowercase)
              /\ \A q \in 2..Len(words[j]) : s'[Len(s) + q] = words[j][q] ]_vars

\* the word aB appended for a lowercase request: the B is kept
C14_Witness ==
    /\ opts.command = "Dict"
    /\ \E k \in 1..Len(hist) :
          /\ hist[k].w = << 97, 66 >>
          /\ hist[k].lower
          /\ SubSeq(s, hist[k].at + 1, hist[k].at + 2) = << 97, 66 >>

\* the dictionary closure never returns None and no attempt is aborted: the
\* case C15 is about does not arise in a run of the program
StrategyNeverFails == \A k \in 1..Len(outcomes) : outcomes[k] # "aborted"

\* C16: every attempt starts from the empty candidate and holds nothing but
\* what was pushed since it started; the count of attempts is what is
\* carried from one attempt to the next
C16_FreshCandidate ==
    /\ pc \in {"loop", "pick"} => s = Pushed(hist)
    /\ (pc = "loop" /\ hist = << >>) => s = << >>
    /\ InDoGen => actual_tries = Len(outcomes)
    /\ pc \in {"iter", "loop", "pick", "done"} => take_n = opts.tries - Started

\* the second attempt, just started, after a rejected first one
C16_Witness ==
    /\ pc = "loop"
    /\ outcomes = << "rejected" >>
    /\ hist = << >>
    /\ s = << >>
    /\ opts.min >= 3

\* no symbol is an ASCII letter or digit
C17_SymbolsApart ==
    \A k \in 1..Len(opts.symbols) :
        opts.symbols[k] \notin (48..57) \cup (65..90) \cup (97..122)

C17_Required(c) == \E i \in 1..Len(required) : required[i] = c

\* C17: Chars, symbols apart from letters and digits: every char of every
\* candidate is of the class of a required constraint, so a digit, a symbol,
\* a lowercase or an uppercase letter appears only if its constraint is
\* required, and no char of an excluded class appears
C17_OnlyRequiredClasses ==
    (opts.command = "Chars" /\ C17_SymbolsApart) =>
        \A p \in 1..Len(s) :
            /\ \E i \in 1..Len(required) : s[p] \in C11_Class(required[i])
            /\ s[p] \in 48..57 => C17_Required("Number")
            /\ s[p] \in 97..122 => C17_Required("LowerCaseLetter")
            /\ s[p] \in 65..90 => C17_Required("UpperCaseLetter")
            /\ Contains(opts.symbols, s[p]) => C17_Required("Symbol")
            /\ \A k \in 1..Len(opts.exclude) : s[p] \notin C11_Class(opts.exclude[k])
            /\ Accepted => result[1] = s

\* an accepted string of letters only, Number being required and excluded
C17_Witness ==
    /\ Accepted
    /\ opts.command = "Chars"
    /\ C17_SymbolsApart
    /\ opts.require = << "LowerCaseLetter", "Number" >>
    /\ opts.exclude = << "Number" >>
    /\ Len(result[1]) >= 3

\* every symbol is one byte long in a String
SingleUnitSymbols == \A k \in 1..Len(opts.symbols) : opts.symbols[k] < 128

LastRejected ==
    pc = "iter" /\ outcomes # << >> /\ outcomes[Len(outcomes)] = "rejected"

\* C18: Chars, one-byte symbols: the candidate grows by one per push, so it
\* has length min at the acceptance check, and every accepted string has
\* length min, whatever max is
C18_LengthIsMin ==
    (opts.command = "Chars" /\ SingleUnitSymbols) =>
        /\ pc = "loop" => (StrLen(s) = Len(hist) /\ StrLen(s) <= opts.min)
        /\ (pc = "loop" /\ ~(StrLen(s) < opts.min)) => StrLen(s) = opts.min
        /\ LastRejected => StrLen(s) = opts.min
        /\ Accepted => StrLen(result[1]) = opts.min

C18_Witness ==
    /\ Accepted
    /\ opts.command = "Chars"
    /\ opts.symbols = << 33 >>
    /\ Contains(result[1], 33)
    /\ opts.min < opts.max
    /\ StrLen(result[1]) = opts.min

\* C19: Dict, one-byte chars: the candidate is never longer than max while
\* it is built, so a rejection is always an unsatisfied constraint
C19_RejectedForConstraint ==
    (opts.command = "Dict" /\ SingleUnitSymbols) =>
        /\ pc \in {"loop", "pick"} => StrLen(s) <= opts.max
        /\ LastRejected =>
              /\ StrLen(s) <= opts.max
              /\ \E i \in 1..Len(required) :
                    \A p \in 1..Len(s) : s[p] \notin C11_Class(required[i])

\* a rejected candidate of two words that fills max
C19_Witness ==
    /\ opts.command = "Dict"
    /\ SingleUnitSymbols
    /\ LastRejected
    /\ StrLen(s) = opts.max
    /\ Len(hist) = 2
    /\ hist[1].w # << >> /\ hist[2].w # << >>

\* C20: Chars, once main's assertions have passed do_gen ends in one of two
\* ways, a returned string or the exhaustion panic
C20_TwoOutcomes ==
    (opts.command = "Chars" /\ C8_OptsOk /\ pc = "panic") => panic.msg = ExhaustedMsg

====
